---- MODULE Spec2Model ----
(***************************************************************************)
(* A model of orix's masked property store (CrystalMapProperties) and of   *)
(* its ANG file plugin (header parser, column resolver, reader, writer).   *)
(*                                                                         *)
(* Numbers that are floats in the program are kept as integers in a fixed  *)
(* unit, so that rounding and truncation are computed, not assumed:        *)
(*   - property-store values are counted in halves (3 stands for 1.5);     *)
(*   - ANG values are counted in units of 10^-6 (Micro).                   *)
(***************************************************************************)
EXTENDS Integers, Sequences, FiniteSets, TLC

VARIABLES
    id,          \* CrystalMapProperties.id: the point ids a write addresses
    is_in_data,  \* CrystalMapProperties.is_in_data: the mask, one BOOLEAN per point
    props,       \* the dict itself: key -> [dtype, vals], vals indexed by point id
    result,      \* what the last store operation returned or raised
    written,     \* history: key -> the values of its last completed set since the last mask change
    nsets,       \* history: number of __setitem__ calls made so far
    header,      \* the header lines of an ANG file (the list _get_header returns)
    n_cols_file, \* the number of columns of the file's data rows
    cols_out,    \* what _get_vendor_columns returned
    phases_out,  \* what _get_phases_from_header returned
    file_data,   \* the data rows of an ANG file, values in units of 10^-5
    fmt,         \* the field widths file_writer formatted the rows with
    xmap,        \* the dataset handed to file_writer, with the property overrides
    xmap_out,    \* what file_reader returned or raised
    pc           \* position of the ANG plugin's caller

storeVars == <<id, is_in_data, props, result, written, nsets>>

angVars == <<header, n_cols_file, cols_out, phases_out, file_data, fmt, xmap, xmap_out, pc>>

vars == <<id, is_in_data, props, result, written, nsets,
          header, n_cols_file, cols_out, phases_out, file_data, fmt, xmap, xmap_out, pc>>

-----------------------------------------------------------------------------
(* Bounds *)

\* Size N of the point-id domain.
NPoints == 3

\* Number of __setitem__ calls explored in one behaviour.
MaxSets == 2

-----------------------------------------------------------------------------
(* Masked property store: crystal_map_properties.py *)

PointIds == 0 .. (NPoints - 1)

Keys == {"iq", "ci"}

\* np.arange(N): every point id, ascending.
AllIds == [j \in 1 .. NPoints |-> j - 1]

\* The ids of the points in the data under mask m, ascending
\* (what the owner of the store keeps in `id`).
ActiveIds(m) == SelectSeq(AllIds, LAMBDA p : m[p])

\* np.zeros(self.is_in_data.size): a float64 array of zeros.
Zeros == [dtype |-> "float", vals |-> [p \in PointIds |-> 0]]

\* One element converted to a dtype.  Values are in halves, so an int is an
\* even number and float -> int truncates toward zero (values are >= 0).
Cast(x, t) == IF t = "int" THEN (x \div 2) * 2 ELSE x

\* array.astype(value_type): a converted copy of the whole array.
AsType(arr, t) == [dtype |-> t, vals |-> [p \in PointIds |-> Cast(arr.vals[p], t)]]

\* dict.setdefault(key, default): the stored array, or the default.
SetDefault(d, key, default) == IF key \in DOMAIN d THEN d[key] ELSE default

\* array[ids] = value, value having one entry per id.
IndexAssign(arr, ids, value) ==
    [arr EXCEPT !.vals =
        [p \in PointIds |->
            IF \E j \in 1 .. Len(ids) : ids[j] = p
            THEN Cast(value[CHOOSE j \in 1 .. Len(ids) : ids[j] = p], arr.dtype)
            ELSE arr.vals[p]]]

\* array[ids] = x, a scalar broadcast to every id.
IndexAssignScalar(arr, ids, x) ==
    [arr EXCEPT !.vals =
        [p \in PointIds |->
            IF \E j \in 1 .. Len(ids) : ids[j] = p
            THEN Cast(x, arr.dtype)
            ELSE arr.vals[p]]]

\* array[mask]: the entries where the mask is true, in ascending position.
MaskSelect(arr, m) ==
    LET sel == SelectSeq(AllIds, LAMBDA p : m[p])
    IN  [j \in 1 .. Len(sel) |-> arr.vals[sel[j]]]

\* dict.__setitem__(key, array)
DictSet(d, key, arr) == [k \in (DOMAIN d) \cup {key} |-> IF k = key THEN arr ELSE d[k]]

NoResult == [op |-> "init", key |-> "", out |-> <<>>, err |-> ""]

\* The values a caller passes: homogeneous arrays, one entry per active
\* point.  tpl is the element type, and the entries alternate so that order
\* is visible: floats 0.5, 1.5, 0.5, ... (1, 3 in halves), ints 1, 2, 1, ...
ValueTypes == {"float", "int"}

ValueOf(tpl, n) ==
    [j \in 1 .. n |->
        IF tpl = "float" THEN (IF j % 2 = 1 THEN 1 ELSE 3)
                         ELSE (IF j % 2 = 1 THEN 2 ELSE 4)]

\* The ANG plugin is not in use.
AngIdle ==
    /\ header = << >>
    /\ n_cols_file = 0
    /\ cols_out = << >>
    /\ phases_out = << >>
    /\ file_data = << >>
    /\ fmt = << >>
    /\ xmap = << >>
    /\ xmap_out = << >>
    /\ pc = "idle"

\* __init__(dictionary={}, id=np.arange(N), is_in_data=None)
InitStore ==
    /\ AngIdle
    /\ id = AllIds
    /\ is_in_data = [p \in PointIds |-> TRUE]
    /\ props = << >>
    /\ result = NoResult
    /\ written = << >>
    /\ nsets = 0

\* A write to the first len(value) positions instead of the positions in id.
SetItemWrite_FirstPositions(arr, ids, value) ==
    IndexAssign(arr, SubSeq(AllIds, 1, Len(ids)), value)

\* Line 82 as written: array[self.id] = value.
SetItemWrite(arr, ids, value) == IndexAssign(arr, ids, value)

\* __setitem__(key, value) with an iterable value of element type tpl.
\* An empty value raises IndexError at value[0], after setdefault has
\* already stored the default array under a new key.
SetItem(key, tpl) ==
    LET value == ValueOf(tpl, Len(id))
        array == SetDefault(props, key, Zeros)
        d1    == DictSet(props, key, array)
    IN  /\ nsets < MaxSets
        /\ nsets' = nsets + 1
        /\ IF Len(value) = 0
           THEN /\ props' = d1
                /\ result' = [op |-> "set", key |-> key, out |-> <<>>, err |-> "IndexError"]
                /\ written' = written
           ELSE /\ props' = DictSet(d1, key, SetItemWrite(AsType(array, tpl), id, value))
                /\ result' = [op |-> "set", key |-> key, out |-> <<>>, err |-> ""]
                /\ written' = DictSet(written, key, value)
        /\ UNCHANGED <<id, is_in_data>>
        /\ UNCHANGED angVars

\* __setitem__(key, x) with a scalar x (no __iter__): type(x), broadcast.
\* The scalar passed is the float 1.5.
SetItemScalar(key) ==
    LET x     == 3
        tpl   == "float"
        array == SetDefault(props, key, Zeros)
    IN  /\ nsets < MaxSets
        /\ nsets' = nsets + 1
        /\ props' = DictSet(props, key, IndexAssignScalar(AsType(array, tpl), id, x))
        /\ result' = [op |-> "setscalar", key |-> key, out |-> <<>>, err |-> ""]
        /\ written' = DictSet(written, key, [j \in 1 .. Len(id) |-> x])
        /\ UNCHANGED <<id, is_in_data>>
        /\ UNCHANGED angVars

\* A read that forgets the mask and returns the whole array.
GetItemRead_Unmasked(arr, m) == [j \in 1 .. NPoints |-> arr.vals[j - 1]]

\* Lines 90-92 as written: array[self.is_in_data].
GetItemRead(arr, m) == MaskSelect(arr, m)

\* __getitem__(item): KeyError from dict.__getitem__ when the key was never set.
GetItem(key) ==
    /\ result' = IF key \in DOMAIN props
                 THEN [op |-> "get", key |-> key, out |-> GetItemRead(props[key], is_in_data), err |-> ""]
                 ELSE [op |-> "get", key |-> key, out |-> <<>>, err |-> "KeyError"]
    /\ UNCHANGED <<id, is_in_data, props, written, nsets>>
    /\ UNCHANGED angVars

\* The owner of the store changes the mask: it replaces is_in_data and id
\* (the ids of the points now in the data) and touches no array.  One step
\* moves one point in or out of the data; any mask is some steps away.
SetMask(q) ==
    /\ is_in_data' = [is_in_data EXCEPT ![q] = ~ @]
    /\ id' = ActiveIds(is_in_data')
    /\ result' = [op |-> "mask", key |-> "", out |-> <<>>, err |-> ""]
    /\ written' = << >>
    /\ UNCHANGED <<props, nsets>>
    /\ UNCHANGED angVars

NextStore ==
    \/ \E key \in Keys, tpl \in ValueTypes : SetItem(key, tpl)
    \/ \E key \in Keys : SetItemScalar(key)
    \/ \E key \in Keys : GetItem(key)
    \/ \E q \in PointIds : SetMask(q)

SpecStore == InitStore /\ [][NextStore]_vars

-----------------------------------------------------------------------------
(* Properties of the masked property store *)

Active == {p \in PointIds : is_in_data[p]}

\* C1: after set(key, v), v holding one entry per active point, a get(key)
\* made while the mask is unchanged returns exactly v: same length, same
\* order, whatever sets and mask changes came before.
C1_SetThenGet ==
    (result.op = "get" /\ result.err = "" /\ result.key \in DOMAIN written)
        => result.out = written[result.key]

\* A get of "iq" after a second set, under a mask with a point out of the
\* data between two points in the data (N=3: mask [T,F,T], set [1,2],
\* backing array [1,0,2], get [1,2]).
C1_Witness ==
    /\ result.op = "get" /\ result.key = "iq" /\ "iq" \in DOMAIN written
    /\ nsets = 2
    /\ is_in_data[0] /\ ~ is_in_data[1] /\ is_in_data[2]
    /\ props["iq"].dtype = "int"
    /\ props["iq"].vals[0] = 2 /\ props["iq"].vals[1] = 0 /\ props["iq"].vals[2] = 4
    /\ result.out = <<2, 4>>

\* C2 as claimed: a set(key, values) changes the backing array of key only
\* at the positions of the active points; every other position keeps the
\* value it had (zero if the array is new), also when the element type of
\* the key changes, and no other key's array changes.
C2_WriteLocality ==
    [][(result'.op = "set" /\ nsets' = nsets + 1) =>
        LET key == result'.key
        IN  /\ \A k \in Keys \ {key} :
                /\ (k \in DOMAIN props') = (k \in DOMAIN props)
                /\ k \in DOMAIN props => props'[k] = props[k]
            /\ \A p \in PointIds \ Active :
                props'[key].vals[p] =
                    IF key \in DOMAIN props THEN props[key].vals[p] ELSE 0]_vars

\* C3: a get of a key that was set returns the backing-array values at the
\* positions where the mask is now true, ascending, its length the number
\* of true mask entries; and a change of the mask changes no backing array.
C3_ReadVisibility ==
    [][/\ (result'.op = "get" /\ result'.err = "") =>
            /\ Len(result'.out) = Cardinality({p \in PointIds : is_in_data'[p]})
            /\ \A p \in PointIds : is_in_data'[p] =>
                   result'.out[1 + Cardinality({q \in PointIds : is_in_data'[q] /\ q < p})]
                       = props'[result'.key].vals[p]
       /\ (is_in_data' # is_in_data) => (props' = props)]_vars

\* A get that returns fewer than N values, the inactive point holding a
\* value that was written while it was active.
C3_Witness ==
    /\ result.op = "get" /\ result.err = ""
    /\ Len(result.out) = 2
    /\ ~ is_in_data[1] /\ props[result.key].vals[1] # 0
    /\ result.out[1] # result.out[2]

-----------------------------------------------------------------------------
(* ANG plugin, header side: ang.py *)

\* Number of header lines of an input file.
MaxHeader == 5

\* Largest column count of an input file.
MaxCols == 15

\* The property store is not in use.
StoreIdle ==
    /\ id = << >>
    /\ is_in_data = << >>
    /\ props = << >>
    /\ result = NoResult
    /\ written = << >>
    /\ nsets = 0

\* One header line "# <marker><sep blanks><content>", as _get_header keeps
\* it (right-stripped):
\*   marker  the first word after "# "
\*   sep     the number of blanks between the marker and the content
\*   text    the content, as its whitespace-separated tokens
\*   num     the value of a numeral content (0 otherwise)
\*   lat     the values of a LatticeConstants content, in units of 10^-3
\*   fp      the vendor footprints that occur in the line as substrings
Line(marker, sep, text, num, lat, fp) ==
    [marker |-> marker, sep |-> sep, text |-> text, num |-> num, lat |-> lat, fp |-> fp]

\* "# Phase 2"
PhaseLine(n) == Line("Phase", 1, <<ToString(n)>>, n, << >>, {})

\* "# MaterialName    Al"
NameLine(tokens) == Line("MaterialName", 4, tokens, 0, << >>, {})

\* "# Formula    Al"
FormulaLine(tokens) == Line("Formula", 4, tokens, 0, << >>, {})

\* "# Symmetry    43"
SymmetryLine(tokens) == Line("Symmetry", 4, tokens, 0, << >>, {})

\* "# LatticeConstants    4.040 4.040 4.040 90.000 90.000 90.000"
LatticeLine(abcABG) == Line("LatticeConstants", 4, [i \in 1 .. Len(abcABG) |-> "num"], 0, abcABG, {})

\* Any other comment line, holding the footprints fp.
CommentLine(fp) == Line("", 0, << >>, 0, << >>, fp)

\* Every sequence over S of length at most n.
SeqsUpTo(S, n) == UNION {[1 .. k -> S] : k \in 0 .. n}

\* vendor_footprint, in the order the dict is iterated.
vendor_footprint ==
    << [name |-> "emsoft", footprint |-> "EMsoft"],
       [name |-> "astar", footprint |-> "ACOM"] >>

\* `footprint in line` for some line of the header.
HasFootprint(h, footprint) == \E i \in 1 .. Len(h) : footprint \in h[i].fp

\* Lines 169-181: the outer loop visits every footprint; the break leaves
\* only the inner loop over the lines.
RECURSIVE ScanFootprints(_, _, _)
ScanFootprints(h, k, vendor) ==
    IF k > Len(vendor_footprint) THEN vendor
    ELSE ScanFootprints(h, k + 1,
            IF HasFootprint(h, vendor_footprint[k].footprint)
            THEN vendor_footprint[k].name
            ELSE vendor)

\* Assume EDAX TSL by default.
DetectVendor(h) == ScanFootprints(h, 1, "tsl")

\* column_names
column_names ==
    [unknown |-> <<"euler1", "euler2", "euler3", "x", "y", "unknown1", "unknown2", "phase_id">>,
     tsl     |-> <<"euler1", "euler2", "euler3", "x", "y", "iq", "ci", "phase_id",
                   "unknown1", "fit", "unknown2", "unknown3", "unknown4", "unknown5">>,
     emsoft  |-> <<"euler1", "euler2", "euler3", "x", "y", "iq", "dp", "phase_id">>,
     astar   |-> <<"euler1", "euler2", "euler3", "x", "y", "ind", "rel", "phase_id", "relx100">>]

\* Lines 244-248: when the file has more columns than the fallback schema,
\* "unknown" + str(i + 3) is appended for i in range(n - n_cols_unknown).
ExtraColumns(n, n_cols_unknown) ==
    IF n > n_cols_unknown
    THEN [i \in 1 .. (n - n_cols_unknown) |-> "unknown" \o ToString((i - 1) + 3)]
    ELSE << >>

\* _get_vendor_columns(header, n_cols_file); `detected` is the local
\* variable vendor as it stands after the footprint search.
GetVendorColumns(h, n) ==
    LET vendor          == DetectVendor(h)
        n_cols_expected == Len(column_names[vendor])
    IN  IF n # n_cols_expected
        THEN [detected     |-> vendor,
              vendor       |-> "unknown",
              column_names |-> column_names["unknown"]
                                   \o ExtraColumns(n, Len(column_names["unknown"])),
              warned       |-> TRUE]
        ELSE [detected     |-> vendor,
              vendor       |-> vendor,
              column_names |-> column_names[vendor],
              warned       |-> FALSE]

\* The header lines the vendor search tells apart.
FootprintLines == {CommentLine({}), CommentLine({"EMsoft"}), CommentLine({"ACOM"})}

InitColumns ==
    /\ StoreIdle
    /\ header \in SeqsUpTo(FootprintLines, MaxHeader)
    /\ n_cols_file \in 1 .. MaxCols
    /\ cols_out = << >>
    /\ phases_out = << >>
    /\ file_data = << >>
    /\ fmt = << >>
    /\ xmap = << >>
    /\ xmap_out = << >>
    /\ pc = "start"

\* A call of _get_vendor_columns.
ResolveColumns ==
    /\ pc = "start"
    /\ cols_out' = GetVendorColumns(header, n_cols_file)
    /\ pc' = "cols_done"
    /\ UNCHANGED <<header, n_cols_file, phases_out, file_data, fmt, xmap, xmap_out>>
    /\ UNCHANGED storeVars

NextColumns == ResolveColumns

SpecColumns == InitColumns /\ [][NextColumns]_vars

-----------------------------------------------------------------------------
(* Properties of the column resolver *)

\* C5 as claimed: the returned list has exactly n_cols_file names, and on a
\* mismatch with the detected vendor's count it is the fallback schema
\* followed by unknown(k+2) for the k-th excess column, the vendor "unknown".
C5_ColumnCount ==
    pc = "cols_done" =>
        LET cols     == cols_out.column_names
            fallback == <<"euler1", "euler2", "euler3", "x", "y",
                          "unknown1", "unknown2", "phase_id">>
        IN  /\ Len(cols) = n_cols_file
            /\ n_cols_file # Len(column_names[cols_out.detected]) =>
                /\ cols_out.vendor = "unknown"
                /\ \A j \in 1 .. Len(cols) :
                       cols[j] = IF j <= 8 THEN fallback[j]
                                 ELSE "unknown" \o ToString((j - 8) + 2)

\* The vendor of the first footprint, in table order, that some line holds.
FirstByFootprint(h) ==
    LET hit == {k \in 1 .. Len(vendor_footprint) :
                   \E i \in 1 .. Len(h) : vendor_footprint[k].footprint \in h[i].fp}
    IN  IF hit = {} THEN "tsl"
        ELSE vendor_footprint[CHOOSE k \in hit : \A l \in hit : k <= l].name

\* The vendor of the footprint in the first line that holds one.
FirstByLine(h) ==
    LET hit == {i \in 1 .. Len(h) : h[i].fp # {}}
    IN  IF hit = {} THEN "tsl"
        ELSE LET i == CHOOSE i \in hit : \A l \in hit : i <= l
             IN  vendor_footprint[CHOOSE k \in 1 .. Len(vendor_footprint) :
                                      vendor_footprint[k].footprint \in h[i].fp].name

\* C9 as claimed: the first footprint match decides the vendor and a later
\* match of the other footprint does not change it; no match gives tsl.
\* "First" is taken in either scan order, by footprint or by line.
C9_FirstMatchWins ==
    pc = "cols_done" =>
        cols_out.detected \in {FirstByFootprint(header), FirstByLine(header)}

-----------------------------------------------------------------------------
(* ANG plugin, phases in the header: _get_phases_from_header *)

\* The keys of regexps, in the order the dict is iterated.
regexp_keys == <<"id", "name", "formula", "point_group", "lattice_constants">>

\* re.search(regexps[key], line).  Each pattern is "# <Marker>", blanks,
\* then at least one character of the content class.  A blank is in every
\* content class, so with two or more blanks after the marker the pattern
\* matches whatever follows; with one blank the content must begin with a
\* character of the class, which for "id" is a digit: a negative numeral
\* does not.  A line without content has lost its blanks to rstrip().
Matches(key, line) ==
    CASE key = "id"          -> /\ line.marker = "Phase"
                                /\ Len(line.text) > 0
                                /\ (line.sep >= 2 \/ line.num >= 0)
      [] key = "name"        -> line.marker = "MaterialName" /\ Len(line.text) > 0
      [] key = "formula"     -> line.marker = "Formula" /\ Len(line.text) > 0
      [] key = "point_group" -> line.marker = "Symmetry" /\ Len(line.text) > 0
      [] OTHER               -> line.marker = "LatticeConstants" /\ Len(line.text) > 0

\* Lines 298-305: what is appended for a matching line.  A name is its
\* tokens joined by single blanks, kept here as the token list; an id is
\* the last token, converted by int() at line 314; the other keys keep the
\* last token.
Group(key, line) ==
    CASE key = "name"              -> [text |-> line.text, num |-> 0, lat |-> << >>]
      [] key = "lattice_constants" -> [text |-> << >>, num |-> 0, lat |-> line.lat]
      [] key = "id"                -> [text |-> << >>, num |-> line.num, lat |-> << >>]
      [] OTHER                     -> [text |-> <<line.text[Len(line.text)]>>,
                                       num |-> 0, lat |-> << >>]

\* Lines 287-306: for every key, the groups of the lines that match its
\* pattern, in header order (the two nested loops append to each key's
\* list independently of the other keys).
CollectPhases(h) ==
    [key \in {regexp_keys[k] : k \in 1 .. Len(regexp_keys)} |->
        LET sel == SelectSeq(h, LAMBDA line : Matches(key, line))
        IN  [i \in 1 .. Len(sel) |-> Group(key, sel[i])]]

\* max(phase_ids)
MaxOf(ids) == CHOOSE m \in {ids[i] : i \in 1 .. Len(ids)} :
                  \A i \in 1 .. Len(ids) : ids[i] <= m

\* range(a, b) as a list
Range(a, b) == [i \in 1 .. (IF b > a THEN b - a ELSE 0) |-> a + i - 1]

\* The id after the last one found, instead of after the largest.
NextId_AfterLast(phase_ids) == phase_ids[Len(phase_ids)] + 1

\* The largest id found, without the + 1.
NextId_Largest(phase_ids) == MaxOf(phase_ids)

\* Line 319 as written.
NextId(phase_ids) == MaxOf(phase_ids) + 1

\* Lines 313-321: ensure each phase has an id.
CompleteIds(phase_ids, n_phases) ==
    IF Len(phase_ids) = 0
    THEN phase_ids \o Range(0, n_phases)
    ELSE IF n_phases - Len(phase_ids) > 0 /\ Len(phase_ids) # 0
         THEN LET next_id == NextId(phase_ids)
                  n_left  == n_phases - Len(phase_ids)
              IN  phase_ids \o Range(next_id, next_id + n_left)
         ELSE phase_ids

\* Lines 308-311: the formula list is replaced by the name list when it is
\* empty or when any of its entries is not the empty string.
ResolveNames(phases) ==
    LET names == [i \in 1 .. Len(phases.formula) |-> phases.formula[i].text]
    IN  IF Len(names) = 0 \/ \E i \in 1 .. Len(names) : names[i] # << >>
        THEN [i \in 1 .. Len(phases.name) |-> phases.name[i].text]
        ELSE names

\* _get_phases_from_header(header)
GetPhasesFromHeader(h) ==
    LET phases    == CollectPhases(h)
        phase_ids == [i \in 1 .. Len(phases.id) |-> phases.id[i].num]
        n_phases  == Len(phases.name)
    IN  [ids               |-> CompleteIds(phase_ids, n_phases),
         names             |-> ResolveNames(phases),
         point_groups      |-> [i \in 1 .. Len(phases.point_group) |-> phases.point_group[i].text[1]],
         lattice_constants |-> [i \in 1 .. Len(phases.lattice_constants) |-> phases.lattice_constants[i].lat]]

\* The header lines of the phase-parser inputs.
PhaseHeaderLines ==
    {PhaseLine(0), PhaseLine(1), PhaseLine(2),
     NameLine(<<"A">>), NameLine(<<"B", "C">>),
     FormulaLine(<<"F">>), CommentLine({})}

InitPhases ==
    /\ StoreIdle
    /\ header \in SeqsUpTo(PhaseHeaderLines, MaxHeader)
    /\ n_cols_file = 0
    /\ cols_out = << >>
    /\ phases_out = << >>
    /\ file_data = << >>
    /\ fmt = << >>
    /\ xmap = << >>
    /\ xmap_out = << >>
    /\ pc = "start"

\* A call of _get_phases_from_header.
ParsePhases ==
    /\ pc = "start"
    /\ phases_out' = GetPhasesFromHeader(header)
    /\ pc' = "phases_done"
    /\ UNCHANGED <<header, n_cols_file, cols_out, file_data, fmt, xmap, xmap_out>>
    /\ UNCHANGED storeVars

NextPhases == ParsePhases

SpecPhases == InitPhases /\ [][NextPhases]_vars

-----------------------------------------------------------------------------
(* Properties of the phase-id completion *)

\* The numbers of the header's phase-id lines, in order.
ExplicitIds(h) ==
    LET sel == SelectSeq(h, LAMBDA l : l.marker = "Phase")
    IN  [i \in 1 .. Len(sel) |-> sel[i].num]

\* The number of material-name lines of the header.
NameCount(h) == Len(SelectSeq(h, LAMBDA l : l.marker = "MaterialName"))

\* C6: with n_phases material-name lines, a header without phase-id line
\* yields ids 0..n_phases-1; one with some explicit ids, fewer than
\* n_phases, yields them followed by consecutive integers from
\* max(explicit)+1, one id per phase.
C6_PhaseIdCompletion ==
    pc = "phases_done" =>
        LET explicit == ExplicitIds(header)
            n        == NameCount(header)
            ids      == phases_out.ids
        IN  /\ Len(explicit) = 0 =>
                /\ Len(ids) = n
                /\ \A i \in 1 .. n : ids[i] = i - 1
            /\ (Len(explicit) > 0 /\ Len(explicit) < n) =>
                /\ Len(ids) = n
                /\ \A i \in 1 .. Len(explicit) : ids[i] = explicit[i]
                /\ \E j \in 1 .. Len(explicit) :
                       /\ \A l \in 1 .. Len(explicit) : explicit[l] <= explicit[j]
                       /\ \A i \in (Len(explicit) + 1) .. n :
                              ids[i] = explicit[j] + (i - Len(explicit))

\* Phases [A, B, A] with the one explicit id 2 give [2, 3, 4].
C6_Witness ==
    /\ pc = "phases_done"
    /\ ExplicitIds(header) = <<2>>
    /\ NameCount(header) = 3
    /\ phases_out.ids = <<2, 3, 4>>

\* C7 as claimed: for every header the returned id list has no duplicate.
C7_UniqueIds ==
    pc = "phases_done" =>
        \A i, j \in 1 .. Len(phases_out.ids) :
            i # j => phases_out.ids[i] # phases_out.ids[j]

\* C7 as amended: when the header's explicit ids are pairwise distinct, the
\* returned id list has no duplicate.
C7_UniqueIdsDistinctExplicit ==
    pc = "phases_done" =>
        LET explicit == ExplicitIds(header)
        IN  (\A i, j \in 1 .. Len(explicit) : i # j => explicit[i] # explicit[j])
                => \A i, j \in 1 .. Len(phases_out.ids) :
                       i # j => phases_out.ids[i] # phases_out.ids[j]

\* Two distinct explicit ids, the larger first, completed to three ids.
C7_Witness ==
    /\ pc = "phases_done"
    /\ ExplicitIds(header) = <<2, 0>>
    /\ phases_out.ids = <<2, 0, 3>>

\* The formulas of the header's Formula lines (the last token of each) and
\* the names of its MaterialName lines (the tokens of each), in header
\* order.  A header line is right-stripped (line 146), so each holds a token.
FormulaList(h) ==
    LET sel == SelectSeq(h, LAMBDA l : l.marker = "Formula" /\ Len(l.text) > 0)
    IN  [i \in 1 .. Len(sel) |-> <<sel[i].text[Len(sel[i].text)]>>]

MaterialNameList(h) ==
    LET sel == SelectSeq(h, LAMBDA l : l.marker = "MaterialName" /\ Len(l.text) > 0)
    IN  [i \in 1 .. Len(sel) |-> sel[i].text]

\* C11: the returned name list is the list collected from the Formula
\* lines when that list is non-empty and every entry in it is non-empty;
\* otherwise it is the list collected from the MaterialName lines.
C11_FormulaPreferred ==
    pc = "phases_done" =>
        LET formula == FormulaList(header)
        IN  phases_out.names =
                IF Len(formula) > 0 /\ \A i \in 1 .. Len(formula) : formula[i] # << >>
                THEN formula
                ELSE MaterialNameList(header)

-----------------------------------------------------------------------------
(* ANG plugin, read path: file_reader *)

\* Number of data rows of an input file.
MaxRows == 2

\* 1.0 in the unit of the file's values, 10^-5.
One == 10 ^ 5

\* The keys of data_dict that take a column directly (lines 85-93).
DedicatedNames == {"euler1", "euler2", "euler3", "x", "y", "phase_id"}

\* file_data[:, column], column counted from 1 here.
Column(data, column) == [i \in 1 .. Len(data) |-> data[i][column]]

\* The index of a name in a list of distinct names.
IndexOf(names, name) == CHOOSE j \in 1 .. Len(names) : names[j] = name

\* A rule that also fires on values below -1.
NotIndexed_Below(phase_id, ci) ==
    [i \in 1 .. Len(phase_id) |-> IF ci[i] <= - One THEN - One ELSE phase_id[i]]

\* Line 110 as written: phase_id[np.where(prop["ci"] == -1)] = -1.
NotIndexed(phase_id, ci) ==
    [i \in 1 .. Len(phase_id) |-> IF ci[i] = - One THEN - One ELSE phase_id[i]]

\* Lines 108-111 as written.
ApplyNotIndexed(vendor, phase_id, prop) ==
    IF vendor = "tsl" THEN NotIndexed(phase_id, prop["ci"]) ELSE phase_id

NoMap ==
    [err |-> "", vendor |-> "", rotations |-> << >>, x |-> << >>, y |-> << >>,
     phase_id |-> << >>, prop |-> << >>, phase_list |-> << >>, scan_unit |-> ""]

\* file_reader(filename), for a file with header lines h and data rows
\* data.  np.loadtxt squeezes a single row into a 1-D array, whose shape
\* does not unpack into (n_rows, n_cols): ValueError.  A schema longer than
\* the rows indexes past the last column: IndexError.
ReadAng(h, data) ==
    LET phases == GetPhasesFromHeader(h)
        n_zip  == IF Len(phases.names) < Len(phases.lattice_constants)
                  THEN Len(phases.names) ELSE Len(phases.lattice_constants)
        structures == [i \in 1 .. n_zip |->
                          [title |-> phases.names[i], lattice |-> phases.lattice_constants[i]]]
    IN  IF Len(data) < 2 THEN [NoMap EXCEPT !.err = "ValueError"]
        ELSE
        LET n_cols == Len(data[1])
            vc     == GetVendorColumns(h, n_cols)
            names  == vc.column_names
            col(name) == Column(data, IndexOf(names, name))
            propnames == {names[j] : j \in 1 .. Len(names)} \ DedicatedNames
            prop   == [name \in propnames |-> col(name)]
        IN  IF Len(names) > n_cols
            THEN [NoMap EXCEPT !.err = "IndexError", !.vendor = vc.vendor]
            ELSE [err        |-> "",
                  vendor     |-> vc.vendor,
                  rotations  |-> [i \in 1 .. Len(data) |->
                                     <<col("euler1")[i], col("euler2")[i], col("euler3")[i]>>],
                  x          |-> col("x"),
                  y          |-> col("y"),
                  phase_id   |-> ApplyNotIndexed(vc.vendor, col("phase_id"), prop),
                  prop       |-> prop,
                  phase_list |-> [names        |-> phases.names,
                                  point_groups |-> phases.point_groups,
                                  structures   |-> structures,
                                  ids          |-> phases.ids],
                  scan_unit  |-> IF vc.vendor \in {"tsl", "emsoft"} THEN "um" ELSE "nm"]

\* A call of file_reader on the file at hand.
FileReader ==
    /\ pc \in {"file", "written"}
    /\ xmap_out' = ReadAng(header, file_data)
    /\ pc' = IF xmap_out'.err = "" THEN "read_done" ELSE "read_failed"
    /\ UNCHANGED <<header, n_cols_file, cols_out, phases_out, file_data, fmt, xmap>>
    /\ UNCHANGED storeVars

\* The headers of the reader's input files: no footprint, one, both, and a
\* header with one phase block.
ReaderHeaders ==
    { << >>,
      <<CommentLine({"EMsoft"})>>,
      <<CommentLine({"ACOM"})>>,
      <<CommentLine({"EMsoft"}), CommentLine({"ACOM"})>>,
      <<PhaseLine(1), NameLine(<<"A">>), FormulaLine(<<"A">>), SymmetryLine(<<"43">>),
        LatticeLine(<<4040, 4040, 4040, 90000, 90000, 90000>>)>> }

\* The column counts of the reader's input files: the three vendors'
\* counts, the writer's, and one below the fallback schema's.
ReaderColumnCounts == {7, 8, 9, 10, 14}

\* A data row of n columns: the 6th, 7th and 8th values are a, b and the
\* raw phase id c; every other column j holds j.
Row(n, a, b, c) ==
    [j \in 1 .. n |-> IF j = 6 THEN a ELSE IF j = 7 THEN b ELSE IF j = 8 THEN c * One ELSE j * One]

\* The rows of the reader's input files: the values -1, -1.5 and 0.5 in
\* the 6th and 7th columns, the raw phase ids 0 and 3.
ReaderRows(n) ==
    {Row(n, a, b, c) : a \in {- One, One \div 2}, b \in {- One, - (3 * One) \div 2, One \div 2}, c \in {0, 3}}

InitReader ==
    /\ StoreIdle
    /\ header \in ReaderHeaders
    /\ n_cols_file = 0
    /\ cols_out = << >>
    /\ phases_out = << >>
    /\ \E n \in ReaderColumnCounts, k \in 1 .. MaxRows : file_data \in [1 .. k -> ReaderRows(n)]
    /\ fmt = << >>
    /\ xmap = << >>
    /\ xmap_out = NoMap
    /\ pc = "file"

NextReader == FileReader

SpecReader == InitReader /\ [][NextReader]_vars

-----------------------------------------------------------------------------
(* Properties of the read path *)

\* The header holds no vendor footprint.
NoFootprint(h) == \A i \in 1 .. Len(h) : h[i].fp = {}

\* The column of the confidence index and of the raw phase id in a file of
\* the default vendor (lines 194-209).
CiColumn == IndexOf(column_names.tsl, "ci")

PhaseIdColumn == IndexOf(column_names.tsl, "phase_id")

\* The phase ids of the assembled dataset are -1 where the file's
\* confidence index is exactly -1 and the raw phase ids elsewhere, in the
\* files that satisfy applies; they are the raw phase ids in all other
\* files.
NotIndexedWhere(applies) ==
    pc = "read_done" =>
        \A i \in 1 .. Len(file_data) :
            IF applies /\ file_data[i][CiColumn] = - One
            THEN xmap_out.phase_id[i] = - One
            ELSE xmap_out.phase_id[i] = file_data[i][PhaseIdColumn]

\* C8 as claimed: in a file of the default vendor (no EMsoft or ACOM
\* footprint in the header) every point whose confidence-index value is
\* exactly -1 gets phase id -1 whatever its raw phase id, and every other
\* point keeps its raw phase id; in a file of any other vendor every point
\* keeps its raw phase id.
C8_NotIndexedRule == NotIndexedWhere(NoFootprint(header))

\* C8 as amended: the rule applies in the files with no footprint in the
\* header whose column count is that of the default vendor's schema; in
\* every other file, those switched to the fallback schema included,
\* every point keeps its raw phase id.
C8_NotIndexedRuleDefaultSchema ==
    NotIndexedWhere(NoFootprint(header) /\ Len(file_data[1]) = Len(column_names.tsl))

\* A file of the default vendor's 14 columns with a row of confidence
\* index -1 and raw phase id 3, read as phase id -1, and a row of
\* confidence index -1.5 that kept its raw phase id 3.
C8_Witness ==
    /\ pc = "read_done"
    /\ NoFootprint(header)
    /\ Len(file_data) = 2
    /\ Len(file_data[1]) = Len(column_names.tsl)
    /\ file_data[1][CiColumn] = - One
    /\ file_data[1][PhaseIdColumn] = 3 * One
    /\ xmap_out.phase_id[1] = - One
    /\ file_data[2][CiColumn] = - (3 * One) \div 2
    /\ xmap_out.phase_id[2] = 3 * One

-----------------------------------------------------------------------------
(* ANG plugin, write path: file_writer *)

\* Largest number of rows, columns (and layers) of a dataset's grid.
MaxSide == 2

\* Number of decimals to round to (line 374).
decimals == 5

\* 1.0 in the unit of a dataset's values, 10^-6.
OneMicro == 10 ^ 6

\* a / b rounded to the nearest integer, halves to the even one; b > 0.
RoundDiv(a, b) ==
    LET m == IF a < 0 THEN - a ELSE a
        q == m \div b
        r == m % b
        n == IF 2 * r > b \/ (2 * r = b /\ q % 2 = 1) THEN q + 1 ELSE q
    IN  IF a < 0 THEN - n ELSE n

\* np.round(v, 5) and "%.5f": a value in units of 10^-6 to units of 10^-5.
Round5(v) == RoundDiv(v, 10)

\* f"{val:.3f}": a value in units of 10^-4 to units of 10^-3.
Round3(v) == RoundDiv(v, 10)

\* 2^k
RECURSIVE Pow2(_)
Pow2(k) == IF k = 0 THEN 1 ELSE 2 * Pow2(k - 1)

\* The exponent e with 2^e <= n < 2^(e+1), n >= 1.
RECURSIVE Log2(_)
Log2(n) == IF n < 2 THEN 0 ELSE 1 + Log2(n \div 2)

\* A value v (units of 10^-5) stored in a float32 array and printed with
\* "%.5f".  float32 keeps 24 significant bits: below 128 its spacing is at
\* most 2^-17 and the printed value is v again; from 128 on (exponent
\* e >= 7) the fraction is rounded to a multiple of 2^(e-23) first.
\* 10^5 = 2^5 * 3125 keeps the arithmetic small.
Float32Print(v) ==
    LET m == IF v < 0 THEN - v ELSE v
        I == m \div One
        F == m % One
    IN  IF I < 128 THEN v
        ELSE LET k    == 23 - Log2(I)
                 ulps == RoundDiv(F * Pow2(k - 5), 3125)
                 back == I * One + RoundDiv(ulps * 3125, Pow2(k - 5))
             IN  IF v < 0 THEN - back ELSE back

\* The number of grid points of a shape.
RECURSIVE Product(_)
Product(shape) == IF Len(shape) = 0 THEN 1 ELSE shape[1] * Product(Tail(shape))

\* _get_nrows_ncols_step_sizes(crystal_map)
GetNrowsNcolsStepSizes(xm) ==
    IF Len(xm.shape) = 1
    THEN [nrows |-> 1, ncols |-> xm.shape[1], dy |-> OneMicro, dx |-> xm.dx]
    ELSE [nrows |-> xm.shape[1], ncols |-> xm.shape[2], dy |-> xm.dy, dx |-> xm.dx]

\* len(str(n)) for an integer n
RECURSIVE StrLen(_)
StrLen(n) == IF n < 0 THEN 1 + StrLen(- n) ELSE IF n < 10 THEN 1 ELSE 1 + StrLen(n \div 10)

\* _get_column_width(max_value), max_value in units of 10^-5:
\* len(str(int(max_value // 1))) + decimals + 1.
GetColumnWidth(max_value) == StrLen(max_value \div One) + decimals + 1

\* np.max of a non-empty array
ArrayMax(a) == CHOOSE m \in {a[i] : i \in 1 .. Len(a)} : \A i \in 1 .. Len(a) : a[i] <= m

\* k.lower().replace("_", "") on the property names in use.
Normalize(name) ==
    CASE name = "Image_Quality" -> "imagequality"
      [] name = "CI"            -> "ci"
      [] name = "SEM_Signal"    -> "semsignal"
      [] name = "Pattern_Fit"   -> "patternfit"
      [] OTHER                  -> name

\* all_expected_prop_names (lines 483-488)
all_expected_prop_names ==
    << <<"iq", "image_quality", "imagequality">>,
       <<"ci", "confidence_index", "confidenceindex">>,
       <<"ss", "sem_signal", "semsignal">>,
       <<"fit", "pattern_fit", "patternfit">> >>

\* Lines 521-525: the first expected name, from the k-th on, that equals a
\* normalised property name selects the first property so named; "" is None.
RECURSIVE SearchPropName(_, _, _)
SearchPropName(expected, prop_names, k) ==
    IF k > Len(expected) THEN ""
    ELSE LET hit == {j \in 1 .. Len(prop_names) : Normalize(prop_names[j]) = expected[k]}
         IN  IF hit # {}
             THEN prop_names[CHOOSE j \in hit : \A l \in hit : j <= l]
             ELSE SearchPropName(expected, prop_names, k + 1)

\* crystal_map.get_map_data(item, decimals=5, fill_value=0) of a property:
\* its values on the grid, rounded (every point is in the data).
GetMapData(xm, item) == [p \in 1 .. Len(xm.prop[item]) |-> Round5(xm.prop[item][p])]

\* crystal_map.get_map_data("rotations", decimals=5, fill_value=0)
GetMapEulers(xm) ==
    [p \in 1 .. Len(xm.rotations) |-> [c \in 1 .. 3 |-> Round5(xm.rotations[p][c])]]

\* _get_prop_array: the property's grid values, or None (<< >>).
GetPropArray(xm, prop_name, expected, prop_names) ==
    LET name == IF prop_name # "" THEN prop_name
                ELSE SearchPropName(expected, prop_names, 1)
    IN  IF name = "" THEN << >> ELSE GetMapData(xm, name)

\* _get_prop_arrays: a float32 array of map_size rows and 4 columns, kept
\* here as its 4 columns of printed values; a column stays zero when its
\* property is None.
GetPropArrays(xm, prop_names, desired_prop_names, map_size) ==
    [i \in 1 .. 4 |->
        LET prop == GetPropArray(xm, desired_prop_names[i], all_expected_prop_names[i], prop_names)
        IN  [p \in 1 .. map_size |-> IF prop = << >> THEN 0 ELSE Float32Print(prop[p])]]

\* Columns 9 and 10 the other way round.
StackColumns_Swapped(eulers, x, y, prop_arrays, phase_id, p) ==
    << eulers[p][1], eulers[p][2], eulers[p][3], Round5(x[p]), Round5(y[p]),
       prop_arrays[1][p], prop_arrays[2][p], phase_id[p],
       prop_arrays[4][p], prop_arrays[3][p] >>

\* Lines 411-413 as written: the columns of a row, in file order, x and y
\* as "%.5f" prints them.
StackColumns(eulers, x, y, prop_arrays, phase_id, p) ==
    << eulers[p][1], eulers[p][2], eulers[p][3], Round5(x[p]), Round5(y[p]),
       prop_arrays[1][p], prop_arrays[2][p], phase_id[p],
       prop_arrays[3][p], prop_arrays[4][p] >>

\* Lines 402-405 and 414-417 as written: the widths in the order of the
\* format string; 8 for the Euler angles, 0 for the "%i" of the phase id.
\* sem_signal_width is taken from column 3 and fit_width from column 2 of
\* prop_arrays (counted from 0), and the format puts fit_width first.
\* x and y come in units of 10^-6, the property columns in 10^-5.
FormatWidths(x, y, prop_arrays) ==
    LET x_width          == GetColumnWidth(ArrayMax(x) \div 10)
        y_width          == GetColumnWidth(ArrayMax(y) \div 10)
        iq_width         == GetColumnWidth(ArrayMax(prop_arrays[1]))
        ci_width         == GetColumnWidth(ArrayMax(prop_arrays[2]))
        sem_signal_width == GetColumnWidth(ArrayMax(prop_arrays[4]))
        fit_width        == GetColumnWidth(ArrayMax(prop_arrays[3]))
    IN  <<8, 8, 8, x_width, y_width, iq_width, ci_width, 0, fit_width, sem_signal_width>>

\* One phase block of _get_ang_header, as np.savetxt writes it ("# " put
\* before every line) and _get_header reads it back (right-stripped).
PhaseBlock(phase) ==
    << Line("Phase", 1, <<ToString(phase.id)>>, phase.id, << >>, {}),
       NameLine(phase.name),
       FormulaLine(phase.name),
       CommentLine({}),
       SymmetryLine(<<phase.point_group>>),
       LatticeLine([i \in 1 .. 6 |-> Round3(phase.lattice[i])]),
       CommentLine({}) >>

RECURSIVE PhaseBlocks(_, _)
PhaseBlocks(phases, i) ==
    IF i > Len(phases) THEN << >> ELSE PhaseBlock(phases[i]) \o PhaseBlocks(phases, i + 1)

\* _get_ang_header(crystal_map): 6 lines of microscope info, the phase
\* blocks, 12 lines of map info and the line after the last newline.
GetAngHeader(xm) ==
    [i \in 1 .. 6 |-> CommentLine({})]
        \o PhaseBlocks(xm.phases, 1)
        \o [i \in 1 .. 13 |-> CommentLine({})]

\* file_writer's result for a dataset of at most 2 dimensions.
WriteAng(xm) ==
    LET g        == GetNrowsNcolsStepSizes(xm)
        map_size == g.nrows * g.ncols
        eulers   == GetMapEulers(xm)
        \* np.tile(np.arange(ncols) * dx, nrows), in units of 10^-6
        x        == [p \in 1 .. map_size |-> ((p - 1) % g.ncols) * g.dx]
        \* np.sort(np.tile(np.arange(nrows) * dy, ncols)), dy >= 0
        y        == [p \in 1 .. map_size |-> ((p - 1) \div g.ncols) * g.dy]
        prop_arrays == GetPropArrays(xm, xm.prop_names,
                           <<xm.image_quality_prop, xm.confidence_index_prop,
                             xm.sem_signal_prop, xm.pattern_fit_prop>>, map_size)
        \* "%i" of the phase id; read back as that many units
        phase_id == [p \in 1 .. map_size |-> xm.phase_id[p] * One]
    IN  [header |-> GetAngHeader(xm),
         data   |-> [p \in 1 .. map_size |-> StackColumns(eulers, x, y, prop_arrays, phase_id, p)],
         fmt    |-> FormatWidths(x, y, prop_arrays)]

\* A call of file_writer: ValueError before anything is written for a
\* dataset of more than 2 dimensions.
FileWriter ==
    /\ pc = "dataset"
    /\ IF Len(xmap.shape) > 2
       THEN /\ pc' = "write_failed"
            /\ UNCHANGED <<header, file_data, fmt>>
       ELSE /\ header' = WriteAng(xmap).header
            /\ file_data' = WriteAng(xmap).data
            /\ fmt' = WriteAng(xmap).fmt
            /\ pc' = "written"
    /\ UNCHANGED <<n_cols_file, cols_out, phases_out, xmap, xmap_out>>
    /\ UNCHANGED storeVars

\* The datasets handed to file_writer.  Point p (from 1, row-major) holds
\* values that differ from point to point and from property to property;
\* all are in units of 10^-6, some with a sixth decimal that rounding drops.

\* Euler angles of point p: exact to 5 decimals (kind 1) or not (kind 2).
EulersOf(kind, p) ==
    IF kind = 1 THEN <<OneMicro + p * 100000, 500000, 0>>
                ELSE <<1234567 + p, 2345678, 3456785>>

\* The value at point p of the j-th property of the dataset:
\*   "plain"  1.5j + 0.25p + 0.000001, the third property 12 times larger;
\*   "big"    the same, the first property 200.00001 + 0.00001p;
\*   "neg"    the negated plain values.
PropValue(kind, j, p) ==
    LET plain == (IF j = 3 THEN 12 ELSE 1) * j * 1500000 + p * 250000 + 1
    IN  CASE kind = "big" /\ j = 1 -> 200 * OneMicro + 10 + p * 10
          [] kind = "neg"          -> - plain
          [] OTHER                 -> plain

\* The property names of a dataset, in dict order.
PropNameLists ==
    { << >>,
      <<"iq", "ci", "ss", "fit">>,
      <<"Pattern_Fit", "SEM_Signal", "CI", "Image_Quality">>,
      <<"imagequality", "iq">>,
      <<"unknown1", "unknown2", "unknown3", "unknown4">> }

\* Lattice constants in units of 10^-4: a, b, c, alpha, beta, gamma.
LatticeA == <<40494, 40496, 40500, 900000, 900000, 1200000>>

LatticeB == <<28660, 28660, 28660, 900000, 900000, 900000>>

Phase(pid, name, pg, lattice) ==
    [id |-> pid, name |-> name, point_group |-> pg, lattice |-> lattice]

\* The phase lists of a dataset: none, one phase, two phases with a gap
\* in the ids, and a list that holds the not-indexed phase -1.
PhaseLists ==
    { << >>,
      <<Phase(0, <<"Al">>, "m-3m", LatticeA)>>,
      <<Phase(1, <<"A">>, "432", LatticeA), Phase(3, <<"B", "C">>, "6/mmm", LatticeB)>>,
      <<Phase(-1, <<"not_indexed">>, "1", LatticeB), Phase(0, <<"Al">>, "m-3m", LatticeA)>> }

\* The grid shapes: 1-D, 2-D and one 3-D.
Shapes ==
    {<<c>> : c \in 1 .. MaxSide}
        \cup {<<r, c>> : r \in 1 .. MaxSide, c \in 1 .. MaxSide}
        \cup {<<1, 1, 2>>}

Dataset(shape, ekind, pkind, names, phases, dx, override) ==
    LET n == Product(shape)
    IN  [shape      |-> shape,
         dx         |-> dx,
         dy         |-> dx,
         rotations  |-> [p \in 1 .. n |-> EulersOf(ekind, p)],
         phase_id   |-> [p \in 1 .. n |->
                            IF Len(phases) = 0 THEN 0 ELSE phases[1 + (p % Len(phases))].id],
         prop_names |-> names,
         prop       |-> [name \in {names[j] : j \in 1 .. Len(names)} |->
                            [p \in 1 .. n |-> PropValue(pkind, IndexOf(names, name), p)]],
         phases     |-> phases,
         image_quality_prop    |-> "",
         confidence_index_prop |-> "",
         sem_signal_prop       |-> "",
         pattern_fit_prop      |-> IF override /\ Len(names) > 0 THEN names[1] ELSE ""]

Datasets ==
    {Dataset(shape, ekind, pkind, names, phases, dx, override) :
        shape \in Shapes, ekind \in {1, 2}, pkind \in {"plain", "big", "neg"},
        names \in PropNameLists, phases \in PhaseLists,
        dx \in {OneMicro, 1500005}, override \in BOOLEAN}

InitRoundTrip ==
    /\ StoreIdle
    /\ header = << >>
    /\ n_cols_file = 0
    /\ cols_out = << >>
    /\ phases_out = << >>
    /\ file_data = << >>
    /\ fmt = << >>
    /\ xmap \in Datasets
    /\ xmap_out = NoMap
    /\ pc = "dataset"

NextRoundTrip == FileWriter \/ FileReader

SpecRoundTrip == InitRoundTrip /\ [][NextRoundTrip]_vars

-----------------------------------------------------------------------------
(* Properties of the write path and of the round trip *)

\* The property a slot (1 image quality, 2 confidence index, 3 SEM signal,
\* 4 pattern fit) is written from: the caller's choice, else the first
\* property under one of the slot's names, else none ("").
WrittenFrom(xm, s) ==
    LET desired == <<xm.image_quality_prop, xm.confidence_index_prop,
                     xm.sem_signal_prop, xm.pattern_fit_prop>>[s]
    IN  IF desired # "" THEN desired
        ELSE SearchPropName(all_expected_prop_names[s], xm.prop_names, 1)

\* The value of slot s at point p as the file shows it: the property's
\* value rounded to 5 decimals and printed from the float32 array, 0 when
\* the slot has no property.
SlotPrinted(xm, s, p) ==
    IF WrittenFrom(xm, s) = "" THEN 0
    ELSE Float32Print(Round5(xm.prop[WrittenFrom(xm, s)][p]))

\* The number of grid columns of a dataset of at most 2 dimensions.
GridCols(xm) == xm.shape[Len(xm.shape)]

\* The written rows are the grid points in row-major order, each with the
\* Euler angles, x, y, image quality, confidence index and phase id in
\* columns 1 to 8, slot s9 in column 9 and slot s10 in column 10, and every
\* width of the format is computed from the values of its own column.
WrittenColumns(s9, s10) ==
    pc = "written" =>
        /\ Len(file_data) = Product(xmap.shape)
        /\ \A p \in 1 .. Len(file_data) :
               LET row == file_data[p]
               IN  /\ Len(row) = 10
                   /\ \A c \in 1 .. 3 : row[c] = Round5(xmap.rotations[p][c])
                   /\ row[4] = Round5(((p - 1) % GridCols(xmap)) * xmap.dx)
                   /\ row[5] = Round5(((p - 1) \div GridCols(xmap))
                                         * (IF Len(xmap.shape) = 1 THEN OneMicro ELSE xmap.dy))
                   /\ row[6] = SlotPrinted(xmap, 1, p)
                   /\ row[7] = SlotPrinted(xmap, 2, p)
                   /\ row[8] = xmap.phase_id[p] * One
                   /\ row[9] = SlotPrinted(xmap, s9, p)
                   /\ row[10] = SlotPrinted(xmap, s10, p)
        /\ \A c \in 1 .. 3 : fmt[c] = 8
        /\ fmt[8] = 0
        /\ \A c \in {4, 5, 6, 7, 9, 10} :
               fmt[c] = GetColumnWidth(ArrayMax(Column(file_data, c)))

\* C10 as claimed: every written row holds the 3 Euler angles, x, y, image
\* quality, confidence index, phase id, pattern fit and SEM signal in this
\* order (pattern fit in column 9, SEM signal in column 10), each width is
\* computed from its own column, and the rows are in row-major order.
C10_FitThenSem == WrittenColumns(4, 3)

\* C10 as amended: every written row holds the 3 Euler angles, x, y, image
\* quality, confidence index, phase id, SEM signal and pattern fit in this
\* order (SEM signal in column 9, pattern fit in column 10), each width is
\* computed from its own column, and the rows are in row-major order.
C10_SemThenFit == WrittenColumns(3, 4)

\* A written 2 x 2 dataset with the properties iq, ci, ss and fit, whose
\* SEM-signal and pattern-fit values differ in value and in width.
C10_Witness ==
    /\ pc = "written"
    /\ xmap.shape = <<2, 2>>
    /\ xmap.prop_names = <<"iq", "ci", "ss", "fit">>
    /\ xmap.pattern_fit_prop = ""
    /\ file_data[1][9] = SlotPrinted(xmap, 3, 1)
    /\ file_data[1][9] # file_data[1][10]
    /\ fmt[9] # fmt[10]
    /\ file_data[2][4] > file_data[1][4]
    /\ file_data[3][5] > file_data[2][5]

\* The phase lists of the dataset and of the dataset read back agree in
\* the ids, the names under the ids, the point groups and the lattice
\* constants to 3 decimals.
PhasesPreserved(xm, out) ==
    /\ Len(out.phase_list.ids) = Len(xm.phases)
    /\ Len(out.phase_list.names) = Len(xm.phases)
    /\ Len(out.phase_list.point_groups) = Len(xm.phases)
    /\ Len(out.phase_list.structures) = Len(xm.phases)
    /\ \A i \in 1 .. Len(xm.phases) :
           /\ out.phase_list.ids[i] = xm.phases[i].id
           /\ out.phase_list.names[i] = xm.phases[i].name
           /\ out.phase_list.point_groups[i] = xm.phases[i].point_group
           /\ out.phase_list.structures[i].lattice
                  = [c \in 1 .. 6 |-> Round3(xm.phases[i].lattice[c])]

\* Slot s of the dataset is found again in the dataset read back: under
\* one of the slot's names, with the values equal to 5 decimals.
SlotRecovered(xm, out, s) ==
    WrittenFrom(xm, s) # "" =>
        \E name \in DOMAIN out.prop :
            /\ \E k \in 1 .. Len(all_expected_prop_names[s]) :
                   Normalize(name) = all_expected_prop_names[s][k]
            /\ \A p \in 1 .. Len(xm.rotations) :
                   out.prop[name][p] = Round5(xm.prop[WrittenFrom(xm, s)][p])

\* C4: for every dataset of at most 2 dimensions, the file that
\* file_writer produced is read back by file_reader into a dataset with,
\* per point, the same Euler angles and the same four conventional
\* properties to 5 decimals, each under a name of the property it was
\* written from, and with every phase's id, name, point group and lattice
\* constants (3 decimals) as written.
C4_RoundTrip ==
    pc \in {"read_done", "read_failed"} =>
        /\ pc = "read_done"
        /\ Len(xmap_out.rotations) = Len(xmap.rotations)
        /\ \A p \in 1 .. Len(xmap.rotations) : \A c \in 1 .. 3 :
               xmap_out.rotations[p][c] = Round5(xmap.rotations[p][c])
        /\ \A s \in 1 .. 4 : SlotRecovered(xmap, xmap_out, s)
        /\ PhasesPreserved(xmap, xmap_out)

====
